---- MODULE Spec2Model ----
(***************************************************************************)
(* Job lifecycle (document_converter.py) and event broadcasting            *)
(* (sse_manager.py) of the document conversion server, with the two entry  *)
(* points of main.py.  The program runs on one asyncio event loop: an      *)
(* action is the code a coroutine executes between two suspension points.  *)
(* Optional values are sequences: None is <<>>, a present value x is <<x>>.*)
(* Time is a clock in units of 30 seconds.                                 *)
(***************************************************************************)
EXTENDS Integers, Sequences, FiniteSets, TLC

VARIABLES
    jobs,         \* DocumentConverter.jobs: dict job_id -> job record
    task,         \* the _convert_task coroutine of each job: position and arguments
    nextJob,      \* number of job ids issued so far (uuid4 never repeats)
    files,        \* temporary result files that exist on disk
    waiters,      \* the wait_for_completion calls: position and return value
    snapshots,    \* the dicts get_job_status has returned to its callers
    now,          \* the clock
    conns,        \* every SSEConnection object ever constructed
    connections,  \* SSEManager.connections: dict connection_id -> object
    streams,      \* the event_stream generators: position and locals
    sweep,        \* SSEManager._started and the _cleanup_connections task
    statusLog,    \* history: per job id, the status values assigned, in order
    sent,         \* history: how many SSEEvents were constructed, the last one and the
                  \* connection_id it was for, and the job events among them
    enqueued,     \* history: per connection object, the events put on its queue
    delivered     \* history: per connection object, the events its streams yielded

jobVars  == <<jobs, task, nextJob, files, waiters, snapshots, statusLog>>
connVars == <<conns, connections, streams, sweep>>
histVars == <<sent, enqueued, delivered>>
\* (statusLog belongs to the jobs)
vars     == <<jobs, task, nextJob, files, waiters, snapshots, statusLog, now,
              conns, connections, streams, sweep, sent, enqueued, delivered>>

----------------------------------------------------------------------------
(* Bounds of the model *)

MaxJobs    == 2
MaxConns   == 2
MaxStreams == 1
MaxEvents  == 4
MaxWaiters == 1
MaxTime    == 1
LiveJobs   == 1
SweepTime  == 4
KeepAliveTime == 5
MaxSnapshots == 2

----------------------------------------------------------------------------
(* Values *)

None == <<>>
Some(x) == <<x>>

\* Python truthiness of an Optional[str]: None and "" are falsy
Truthy(opt) == opt # None /\ opt[1] # ""

\* str(e) of an exception: a message format and its argument
Msg(fmt, arg) == [fmt |-> fmt, arg |-> arg]

FormatNames == {"txt", "md", "html", "pdf", "docx", "doc"}

supported_formats ==
    [f \in FormatNames |-> [read |-> TRUE, write |-> f # "doc"]]

BinaryFormats == {"pdf", "docx"}

\* Inputs the entry points are called with
FormatInputs  == {<<"md", "html">>, <<"md", "pdf">>, <<"pdf", "pdf">>,
                  <<"md", "doc">>, <<"doc", "html">>, <<"rtf", "html">>,
                  <<"md", "rtf">>}
ContentInputs == {None, Some("# Hi")}
PathInputs    == {None, Some("/tmp/in")}
\* messages of the exceptions _create_pdf/_create_docx can end with
CollaboratorErrors == {"render failed", "Conversion timeout"}
\* what _read_file can return for a file
FileContents  == {"", "# Hi"}

JobIds == 1 .. MaxJobs

----------------------------------------------------------------------------
(* The conversion collaborator, on the contents the model uses *)

Markdown(c) == IF c = "# Hi" THEN "<h1>Hi</h1>" ELSE c

StripTags(c) == IF c = "<h1>Hi</h1>" THEN "Hi" ELSE c

HtmlToMarkdown(c) == IF c = "<h1>Hi</h1>" THEN "# Hi" ELSE c

\* values carry their Python type: str or bytes
Str(s) == [type |-> "str", v |-> s]
Bytes(s) == [type |-> "bytes", v |-> s]

_to_intermediate(content, source_format) ==
    IF source_format = "md" THEN Markdown(content) ELSE content

_from_intermediate(content, target_format) ==
    CASE target_format = "txt"  -> Str(StripTags(content))
      [] target_format = "md"   -> Str(HtmlToMarkdown(content))
      [] target_format = "html" -> Str(content)
      [] target_format = "pdf"  -> Bytes("%PDF")
      [] target_format = "docx" -> Bytes("PK")
      [] OTHER                  -> Str(content)

_convert_content(content, source_format, target_format) ==
    IF source_format = target_format
    THEN Str(content)
    ELSE _from_intermediate(_to_intermediate(content, source_format), target_format)

\* _convert_content suspends only when it runs _create_pdf/_create_docx in the executor
ConvertSuspends(source_format, target_format) ==
    source_format # target_format /\ target_format \in BinaryFormats

_get_content_type(format) ==
    CASE format = "txt"  -> "text/plain"
      [] format = "md"   -> "text/markdown"
      [] format = "html" -> "text/html"
      [] format = "pdf"  -> "application/pdf"
      [] format = "docx" -> "application/vnd.openxmlformats-officedocument.wordprocessingml.document"
      [] OTHER           -> "application/octet-stream"

Digits == <<"0", "1", "2", "3", "4", "5", "6", "7", "8", "9">>

\* str(n) of a natural number
RECURSIVE Repr(_)
Repr(n) ==
    IF n < 10 THEN <<Digits[n + 1]>> ELSE Repr(n \div 10) \o <<Digits[(n % 10) + 1]>>

----------------------------------------------------------------------------
(* DocumentConverter: job records and the conversion task *)

\* a record that is created as if the work had begun
NewJob_Running(source_format, target_format) ==
    [status |-> "running", progress |-> 10,
     source_format |-> source_format, target_format |-> target_format,
     created_at |-> now, error |-> None, result |-> None]

\* the record convert_async creates, lines 57-65
NewJob(source_format, target_format) ==
    [status |-> "pending", progress |-> 0,
     source_format |-> source_format, target_format |-> target_format,
     created_at |-> now, error |-> None, result |-> None]

NewTask(source_format, target_format, content, file_path) ==
    [pc |-> "scheduled", source_format |-> source_format,
     target_format |-> target_format, content |-> content, file_path |-> file_path,
     source_content |-> None, raised |-> None]

\* One assignment self.jobs[job_id][field] = value.  A step of the task is
\* the sequence of its assignments (a trace): the event loop shows other
\* coroutines only the job record after the last one.
Set(tr, field, value) == Append(tr, <<field, value>>)

\* the job record after the assignments of a trace
RECURSIVE Assign(_, _)
Assign(job, tr) ==
    IF Len(tr) = 0
    THEN job
    ELSE Assign([job EXCEPT ![tr[1][1]] = tr[1][2]], Tail(tr))

\* a progress report that counts the remaining work instead of the work done
Progress_CountsDown(tr, p) == Set(tr, "progress", 100 - p)

\* self.jobs[job_id]['progress'] = p
Progress(tr, p) == Set(tr, "progress", p)

\* a start that does not assign the status
Started_NoStatus(tr) == Progress(tr, 10)

\* lines 83-84
Started(tr) == Progress(Set(tr, "status", "running"), 10)

\* an except branch that loses the status, or the error
Failed_NoStatus(tr, msg) == Set(tr, "error", Some(msg))

Failed_NoError(tr, msg) == Set(tr, "status", "failed")

\* the except branch, lines 132-135
Failed(tr, msg) == Set(Set(tr, "status", "failed"), "error", Some(msg))

\* a completion that does not report the progress
Completed_KeepsProgress(tr) == Set(tr, "status", "completed")

\* lines 129-130
Completed(tr) == Progress(Set(tr, "status", "completed"), 100)

\* A step of the task yields the trace of the job record, the task's next
\* position and whether a temporary file was created; `raised` records the
\* exception the conversion raised in the executor, if it raised one.
Step(tr, pc, wrote) == [trace |-> tr, pc |-> pc, wrote |-> wrote, raised |-> None]

\* line 108 raises msg: the except branch, lines 132-135
Raises(tr, msg) == [Step(Failed(tr, msg), "done", FALSE) EXCEPT !.raised = Some(msg)]

\* a save that returns every result inline, whatever the target format
AfterConvert_AlwaysInline(tr, j, target_format, data, save) ==
    Step(Completed(Set(Progress(tr, 90), "result",
             Some([success |-> TRUE, content |-> Some(data.v), file_path |-> None,
                   content_type |-> _get_content_type(target_format)]))),
         "done", FALSE)

\* a task that stays at the conversion after it has stored the outcome, and
\* so runs lines 110-130 again
AfterConvert_RunsAgain(tr, j, target_format, data, save) ==
    Step(Completed(Set(Progress(tr, 90), "result",
             Some([success |-> TRUE, content |-> Some(data.v), file_path |-> None,
                   content_type |-> _get_content_type(target_format)]))),
         "converting", FALSE)

\* lines 110-130: `data` is what _convert_content returned, `save` the outcome
\* of creating the temporary file in _save_binary_result
AfterConvert(tr, j, target_format, data, save) ==
    LET t90 == Progress(tr, 90) IN
    IF target_format \in BinaryFormats
    THEN IF save = "oserror"
         THEN Step(Failed(t90, Msg("[Errno 28] No space left on device", "")),
                   "done", FALSE)
         ELSE IF data.type # "bytes"
         THEN Step(Failed(t90, Msg("a bytes-like object is required, not 'str'", "")),
                   "done", TRUE)
         ELSE Step(Completed(Set(t90, "result",
                       Some([success |-> TRUE, content |-> None, file_path |-> Some(j),
                             content_type |-> _get_content_type(target_format)]))),
                   "done", TRUE)
    ELSE Step(Completed(Set(t90, "result",
                  Some([success |-> TRUE, content |-> Some(data.v), file_path |-> None,
                        content_type |-> _get_content_type(target_format)]))),
              "done", FALSE)

\* lines 102-130: source_content has been obtained
AfterRead(tr, j, t, source_content, save) ==
    IF ~Truthy(source_content)
    THEN Step(Failed(tr, Msg("No content to convert", "")), "done", FALSE)
    ELSE LET t60 == Progress(tr, 60) IN
         IF ConvertSuspends(t.source_format, t.target_format)
         THEN Step(t60, "converting", FALSE)
         ELSE AfterConvert(t60, j, t.target_format,
                  _convert_content(source_content[1], t.source_format, t.target_format),
                  save)

\* lines 83-130 from the start of the task to its first suspension
FromStart(tr, j, t, save) ==
    LET t10 == Started(tr) IN
    IF t.source_format \notin DOMAIN supported_formats
    THEN Step(Failed(t10, Msg("Unsupported source format: {}", t.source_format)),
              "done", FALSE)
    ELSE IF t.target_format \notin DOMAIN supported_formats
    THEN Step(Failed(t10, Msg("Unsupported target format: {}", t.target_format)),
              "done", FALSE)
    ELSE IF ~supported_formats[t.target_format].write
    THEN Step(Failed(t10, Msg("Cannot write to format: {}", t.target_format)),
              "done", FALSE)
    ELSE LET t30 == Progress(t10, 30) IN
         IF Truthy(t.file_path)
         THEN IF t.source_format \in {"txt", "md", "html", "pdf", "docx"}
              THEN Step(t30, "reading", FALSE)
              ELSE Step(Failed(t30, Msg("Cannot read format: {}", t.source_format)),
                        "done", FALSE)
         ELSE AfterRead(t30, j, t, t.content, save)

\* the status values a trace assigns, in order
RECURSIVE StatusChanges(_)
StatusChanges(tr) ==
    IF Len(tr) = 0
    THEN <<>>
    ELSE IF tr[1][1] = "status"
    THEN <<tr[1][2]>> \o StatusChanges(Tail(tr))
    ELSE StatusChanges(Tail(tr))

----------------------------------------------------------------------------
(* Initial state: the module-level objects of main.py, lines 44-45 *)

Init ==
    /\ jobs = <<>>
    /\ task = <<>>
    /\ nextJob = 0
    /\ files = {}
    /\ waiters = <<>>
    /\ snapshots = <<>>
    /\ statusLog = <<>>
    /\ now = 0
    /\ conns = <<>>
    /\ connections = <<>>
    /\ streams = <<>>
    /\ sweep = [started |-> FALSE, task |-> "none", wake |-> 0]
    /\ sent = [count |-> 0, last |-> None, jobs |-> {}]
    /\ enqueued = <<>>
    /\ delivered = <<>>

----------------------------------------------------------------------------
(* DocumentConverter operations *)

\* dict operations
Put(d, k, v) == [x \in DOMAIN d \cup {k} |-> IF x = k THEN v ELSE d[x]]
Del(d, k) == [x \in DOMAIN d \ {k} |-> d[x]]

\* convert_async, lines 55-71: the state it leaves for the fresh job id j
convert_async(j, source_format, target_format, content, file_path) ==
    /\ jobs' = Put(jobs, j, NewJob(source_format, target_format))
    /\ task' = Put(task, j, NewTask(source_format, target_format, content, file_path))
    /\ nextJob' = j
    /\ statusLog' = Put(statusLog, j, <<"pending">>)

\* the task's state change for the outcome r of one of its steps
TaskResult(j, r, content) ==
    /\ jobs' = [jobs EXCEPT ![j] = Assign(@, r.trace)]
    /\ statusLog' = [statusLog EXCEPT ![j] = @ \o StatusChanges(r.trace)]
    /\ task' = [task EXCEPT ![j].pc = r.pc, ![j].source_content = content,
                            ![j].raised = r.raised]
    /\ files' = IF r.wrote THEN files \cup {j} ELSE files

\* a task that stores its failure under the id, whether a record is there or not
TaskCrash_Recreates(j, raised) ==
    /\ task' = [task EXCEPT ![j].pc = "crashed", ![j].raised = raised]
    /\ jobs' = Put(jobs, j, [NewJob(task[j].source_format, task[j].target_format)
                                EXCEPT !.status = "failed",
                                       !.error = Some(Msg("KeyError", ""))])
    /\ UNCHANGED <<files, statusLog>>

\* The job record is gone (cleanup_job ran): self.jobs[job_id] raises KeyError
\* inside the try block, and again inside the except branch (line 134), so
\* the task ends with an unhandled exception.  `raised` is the exception of
\* the conversion, where that is what sent the task to the except branch.
TaskCrash(j, raised) ==
    /\ task' = [task EXCEPT ![j].pc = "crashed", ![j].raised = raised]
    /\ UNCHANGED <<jobs, files, statusLog>>

\* _convert_task from its start to its first suspension
TaskStart(j) ==
    /\ j \in DOMAIN task
    /\ task[j].pc = "scheduled"
    /\ IF j \notin DOMAIN jobs
       THEN TaskCrash(j, None)
       ELSE \E save \in {"ok", "oserror"} :
                TaskResult(j, FromStart(<<>>, j, task[j], save),
                           IF Truthy(task[j].file_path) THEN None ELSE task[j].content)
    /\ UNCHANGED <<nextJob, waiters, now, snapshots, connVars, histVars>>

\* _convert_task resumed when _read_file finishes: it raised, or returned c
TaskRead(j) ==
    /\ j \in DOMAIN task
    /\ task[j].pc = "reading"
    /\ IF j \notin DOMAIN jobs
       THEN TaskCrash(j, None)
       ELSE \/ TaskResult(j, Step(Failed(<<>>,
                                  Msg("[Errno 2] No such file or directory: {}",
                                      task[j].file_path[1])), "done", FALSE),
                          task[j].source_content)
            \/ \E c \in FileContents, save \in {"ok", "oserror"} :
                  TaskResult(j, AfterRead(<<>>, j, task[j], Some(c), save), Some(c))
    /\ UNCHANGED <<nextJob, waiters, now, snapshots, connVars, histVars>>

\* _convert_task resumed when _convert_content finishes in the executor
TaskConvert(j) ==
    /\ j \in DOMAIN task
    /\ task[j].pc = "converting"
    /\ IF j \notin DOMAIN jobs
       THEN \E r \in {None} \cup {Some(Msg(m, "")) : m \in CollaboratorErrors} :
                TaskCrash(j, r)
       ELSE \/ \E m \in CollaboratorErrors :
                  TaskResult(j, Raises(<<>>, Msg(m, "")), task[j].source_content)
            \/ \E save \in {"ok", "oserror"} :
                  TaskResult(j, AfterConvert(<<>>, j, task[j].target_format,
                                    _convert_content(task[j].source_content[1],
                                                     task[j].source_format,
                                                     task[j].target_format),
                                    save),
                             task[j].source_content)
    /\ UNCHANGED <<nextJob, waiters, now, snapshots, connVars, histVars>>

\* get_job_status, lines 301-310: a copy of the record whose created_at is
\* the text of the time (isoformat)
get_job_status(job_id) ==
    IF job_id \notin DOMAIN jobs
    THEN [error |-> Some(Msg("Job not found", ""))]
    ELSE [jobs[job_id] EXCEPT !.created_at = Repr(@)]

\* ids a caller can name: the issued ones and one that was never issued
KnownIds == (1 .. nextJob) \cup {0}

\* a cleanup that empties the temporary directory, whatever the id
CleanupJob_PurgesFiles(j) ==
    /\ j \in KnownIds
    /\ files' = {}
    /\ jobs' = IF j \in DOMAIN jobs THEN Del(jobs, j) ELSE jobs
    /\ UNCHANGED <<task, nextJob, waiters, statusLog, now, snapshots, connVars, histVars>>

\* a cleanup that lets the OSError of os.unlink escape
CleanupJob_AbortsOnOSError(j) ==
    /\ j \in KnownIds
    /\ IF j \in DOMAIN jobs
       THEN \E unlink \in {"ok", "oserror"} :
                IF jobs[j].result # None /\ jobs[j].result[1].file_path # None
                THEN IF unlink = "ok"
                     THEN /\ files' = files \ {jobs[j].result[1].file_path[1]}
                          /\ jobs' = Del(jobs, j)
                     ELSE UNCHANGED <<jobs, files>>
                ELSE jobs' = Del(jobs, j) /\ UNCHANGED files
       ELSE UNCHANGED <<jobs, files>>
    /\ UNCHANGED <<task, nextJob, waiters, statusLog, now, snapshots, connVars, histVars>>

\* cleanup_job, lines 333-343; os.unlink may fail with OSError
CleanupJob(j) ==
    /\ j \in KnownIds
    /\ IF j \in DOMAIN jobs
       THEN /\ \E unlink \in {"ok", "oserror"} :
                 files' = IF /\ jobs[j].result # None
                             /\ jobs[j].result[1].file_path # None
                             /\ unlink = "ok"
                          THEN files \ {jobs[j].result[1].file_path[1]}
                          ELSE files
            /\ jobs' = Del(jobs, j)
       ELSE UNCHANGED <<jobs, files>>
    /\ UNCHANGED <<task, nextJob, waiters, statusLog, now, snapshots, connVars, histVars>>

----------------------------------------------------------------------------
(* SSEManager: connections, publishing, streams, idle sweep *)

\* SSEManager(heartbeat_interval, connection_timeout), in clock units:
\* the default heartbeat interval of 30 s and a configured timeout
heartbeat_interval == 1
connection_timeout == 3
\* the timeout of wait_for_event in event_stream (line 290), in clock units
StreamWait == 1
\* asyncio.sleep(60) of the sweep
SweepInterval == 2

\* ids a caller passes explicitly; "" is a string too
ExplicitIds == {"", "a"}
\* str(uuid.uuid4()) for the n-th connection object
UuidNames == <<"u1", "u2", "u3", "u4", "u5", "u6", "u7", "u8", "u9">>
Uuid(n) == UuidNames[n]

EventData(type, job_id, connection_id) ==
    [type |-> type, job_id |-> job_id, connection_id |-> connection_id]

\* SSEEvent, lines 19-30; seq is the identity of the Python object (the
\* timestamp, which nothing reads, is left out)
SSEEvent(event, data, id) ==
    [seq |-> sent.count + 1, event |-> event, data |-> data, id |-> id,
     retry |-> None]

SSEConnection(connection_id, queue) ==
    [connection_id |-> connection_id, queue |-> queue, connected |-> TRUE,
     last_heartbeat |-> now]

\* the history after event e was constructed for connection_id
Sent(e, connection_id) ==
    [count |-> e.seq, last |-> Some([event |-> e, target |-> connection_id]),
     jobs |-> IF e.data.job_id # 0 THEN sent.jobs \cup {e.data} ELSE sent.jobs]

\* a queue that hands out the newest event first
ConnSendEvent_Lifo(c, e) ==
    IF c.connected THEN [c EXCEPT !.queue = <<e>> \o @] ELSE c

\* SSEConnection.send_event, lines 43-50
ConnSendEvent(c, e) ==
    IF c.connected THEN [c EXCEPT !.queue = Append(@, e)] ELSE c

\* the objects SSEManager.send_event hands the event to, lines 167-176
ManagerTargets(connection_id) ==
    IF Truthy(connection_id)
    THEN IF connection_id[1] \in DOMAIN connections
         THEN {connections[connection_id[1]]}
         ELSE {}
    ELSE {connections[c] : c \in DOMAIN connections}

\* SSEManager.send_event, lines 153-176
send_event(data, event, connection_id, event_id) ==
    LET e == SSEEvent(event, data, event_id)
        T == ManagerTargets(connection_id)
    IN  /\ sent' = Sent(e, connection_id)
        /\ conns' = [o \in DOMAIN conns |->
                        IF o \in T THEN ConnSendEvent(conns[o], e) ELSE conns[o]]
        /\ enqueued' = [o \in DOMAIN conns |->
                        IF o \in T /\ ConnSendEvent(conns[o], e) # conns[o]
                        THEN Append(enqueued[o], e.seq) ELSE enqueued[o]]

\* _start_cleanup_task, lines 85-93, called from create_connection line 120
StartedSweep ==
    IF ~sweep.started /\ sweep.task \in {"none", "done"}
    THEN [started |-> TRUE, task |-> "running", wake |-> now]
    ELSE sweep

\* a create_connection that does not send the welcome event
create_connection_NoWelcome(cid) ==
    /\ sweep' = StartedSweep
    /\ conns' = Append(conns, SSEConnection(cid, <<>>))
    /\ connections' = Put(connections, cid, Len(conns) + 1)
    /\ UNCHANGED sent
    /\ enqueued' = Append(enqueued, <<>>)
    /\ delivered' = Append(delivered, <<>>)

\* create_connection, lines 117-143, for the id cid (given, or a fresh uuid)
create_connection(cid) ==
    LET e == SSEEvent("connection", EventData("connected", 0, cid), None)
        c == ConnSendEvent(SSEConnection(cid, <<>>), e)
    IN  /\ sweep' = StartedSweep
        /\ conns' = Append(conns, c)
        /\ connections' = Put(connections, cid, Len(conns) + 1)
        /\ sent' = Sent(e, Some(cid))
        /\ enqueued' = Append(enqueued, <<e.seq>>)
        /\ delivered' = Append(delivered, <<>>)

\* a disconnect that forgets to mark the connection
disconnect_KeepsAlive(cid) ==
    /\ connections' = Del(connections, cid)
    /\ UNCHANGED conns

\* a disconnect that marks every connection dead
disconnect_KillsAll(cid) ==
    IF cid \in DOMAIN connections
    THEN /\ conns' = [o \in DOMAIN conns |-> [conns[o] EXCEPT !.connected = FALSE]]
         /\ connections' = Del(connections, cid)
    ELSE UNCHANGED <<conns, connections>>

\* disconnect, lines 145-151
disconnect(cid) ==
    IF cid \in DOMAIN connections
    THEN /\ conns' = [conns EXCEPT ![connections[cid]].connected = FALSE]
         /\ connections' = Del(connections, cid)
    ELSE UNCHANGED <<conns, connections>>

\* ids a caller can name: the explicit ones and the uuids handed out
CallerIds == ExplicitIds \cup {conns[o].connection_id : o \in DOMAIN conns}

CreateConnection(cidopt) ==
    /\ Len(conns) < MaxConns
    /\ create_connection(IF cidopt = None THEN Uuid(Len(conns) + 1) ELSE cidopt[1])
    /\ UNCHANGED <<jobVars, now, streams>>

Disconnect(cid) ==
    /\ cid \in CallerIds
    /\ disconnect(cid)
    /\ UNCHANGED <<jobVars, now, streams, sweep, histVars>>

\* a caller of SSEManager.send_event: broadcast (None) or targeted
SendEvent(cidopt) ==
    /\ sent.count < MaxEvents
    /\ send_event(EventData("message", 0, "n/a"), "message", cidopt, None)
    /\ UNCHANGED <<jobVars, now, connections, streams, sweep, delivered>>

----------------------------------------------------------------------------
(* The wire format.  A text is the sequence of its lines (the text split at
   "\n"), a line the sequence of its pieces. *)

\* a payload value json.dumps cannot encode (a datetime, a set, bytes)
NotJson == "<object>"

\* json.dumps raises TypeError on such a value
JsonRaises(data) == data.type = NotJson \/ data.connection_id = NotJson

\* json.dumps(data, ensure_ascii=False), line 318: one piece per key and
\* value; a newline inside a value is written as the escape \n
JsonEscape(v) == IF v = "\n" THEN "\\n" ELSE v

JsonDumps(data) ==
    <<"{", "type", JsonEscape(data.type), "job_id">> \o Repr(data.job_id)
        \o <<"connection_id", JsonEscape(data.connection_id), "}">>

\* str.split('\n'), line 319
RECURSIVE SplitLines(_)
SplitLines(text) ==
    IF \E i \in 1 .. Len(text) : text[i] = "\n"
    THEN LET i == CHOOSE k \in 1 .. Len(text) :
                      text[k] = "\n" /\ \A m \in 1 .. k - 1 : text[m] # "\n"
         IN  <<SubSeq(text, 1, i - 1)>> \o SplitLines(SubSeq(text, i + 1, Len(text)))
    ELSE <<text>>

PrefixLines(prefix, ls) == [i \in 1 .. Len(ls) |-> <<prefix>> \o ls[i]]

\* _format_sse_event, lines 304-325
_format_sse_event(event) ==
    (IF Truthy(event.id) THEN <<<<"id: ", event.id[1]>>>> ELSE <<>>)
    \o (IF event.event # "" THEN <<<<"event: ", event.event>>>> ELSE <<>>)
    \o (IF event.retry # None /\ event.retry[1] # 0
        THEN <<<<"retry: ">> \o Repr(event.retry[1])>> ELSE <<>>)
    \o PrefixLines("data: ", SplitLines(JsonDumps(event.data)))
    \o <<<<>>, <<>>>>

\* the literal ": keep-alive\n\n" of line 297
KeepAlive == <<<<": keep-alive">>, <<>>, <<>>>>

----------------------------------------------------------------------------
(* event_stream, lines 270-302: one generator per subscriber *)

\* `out` is the element the generator has handed to its consumer at a yield
NewStream(cid, o, pc) ==
    [pc |-> pc, connection_id |-> cid, conn |-> o, last_heartbeat |-> now,
     out |-> <<>>]

\* The first __anext__: lines 272-290 up to the wait for an event.  With no
\* id the generator creates its connection; with an id that is not
\* registered it returns at once (line 277).
StreamOpen(cidopt) ==
    /\ Len(streams) < MaxStreams
    /\ IF cidopt = None
       THEN /\ Len(conns) < MaxConns
            /\ create_connection(Uuid(Len(conns) + 1))
            /\ streams' = Append(streams,
                   NewStream(Uuid(Len(conns) + 1), Len(conns) + 1, "waiting"))
       ELSE /\ cidopt[1] \in CallerIds
            /\ streams' = Append(streams,
                   IF cidopt[1] \in DOMAIN connections
                   THEN NewStream(cidopt[1], connections[cidopt[1]], "waiting")
                   ELSE NewStream(cidopt[1], 0, "closed"))
            /\ UNCHANGED <<conns, connections, sweep, histVars>>
    /\ UNCHANGED <<jobVars, now>>

\* a stream that delivers events without touching the heartbeat time
StreamGet_KeepsHeartbeat(s) ==
    /\ s \in DOMAIN streams
    /\ streams[s].pc = "waiting"
    /\ LET o == streams[s].conn IN
       /\ conns[o].queue # <<>>
       /\ ~JsonRaises(Head(conns[o].queue).data)
       /\ conns' = [conns EXCEPT ![o].queue = Tail(@)]
       /\ delivered' = [delivered EXCEPT ![o] = Append(@, Head(conns[o].queue).seq)]
       /\ streams' = [streams EXCEPT ![s].pc = "yielded",
              ![s].out = _format_sse_event(Head(conns[o].queue))]
    /\ UNCHANGED <<jobVars, now, connections, sweep, sent, enqueued>>

\* wait_for_event returns an event (lines 290-294): it is dequeued, the
\* connection's heartbeat time is updated and the formatted event is yielded.
\* When json.dumps raises on the payload, the except branch of line 298
\* ends the loop and the finally branch disconnects (line 302).
StreamGet(s) ==
    /\ s \in DOMAIN streams
    /\ streams[s].pc = "waiting"
    /\ LET o == streams[s].conn
           cid == streams[s].connection_id
           got == [conns EXCEPT ![o].queue = Tail(@), ![o].last_heartbeat = now]
       IN
       /\ conns[o].queue # <<>>
       /\ IF JsonRaises(Head(conns[o].queue).data)
          THEN /\ conns' = IF cid \in DOMAIN connections
                           THEN [got EXCEPT ![connections[cid]].connected = FALSE]
                           ELSE got
               /\ connections' = Del(connections, cid)
               /\ streams' = [streams EXCEPT ![s].pc = "closed", ![s].out = <<>>]
               /\ UNCHANGED delivered
          ELSE /\ conns' = got
               /\ delivered' = [delivered EXCEPT
                                   ![o] = Append(@, Head(conns[o].queue).seq)]
               /\ streams' = [streams EXCEPT ![s].pc = "yielded",
                      ![s].out = _format_sse_event(Head(conns[o].queue))]
               /\ UNCHANGED connections
    /\ UNCHANGED <<jobVars, now, sweep, sent, enqueued>>

\* wait_for_event times out on an empty queue (lines 295-297): keep-alive
StreamTimeout(s) ==
    /\ s \in DOMAIN streams
    /\ streams[s].pc = "waiting"
    /\ conns[streams[s].conn].queue = <<>>
    /\ streams' = [streams EXCEPT ![s].pc = "keepalive", ![s].out = KeepAlive]
    /\ UNCHANGED <<jobVars, now, conns, connections, sweep, histVars>>

\* a loop that goes on while its dead connection has events in the queue
StreamNext_DrainsQueue(s) ==
    /\ s \in DOMAIN streams
    /\ streams[s].pc \in {"yielded", "keepalive"}
    /\ IF ~conns[streams[s].conn].connected /\ conns[streams[s].conn].queue = <<>>
       THEN /\ disconnect(streams[s].connection_id)
            /\ streams' = [streams EXCEPT ![s].pc = "closed", ![s].out = <<>>]
            /\ UNCHANGED histVars
       ELSE IF now - streams[s].last_heartbeat >= heartbeat_interval
       THEN /\ send_event(EventData("heartbeat", 0, "n/a"), "heartbeat",
                          Some(streams[s].connection_id), None)
            /\ streams' = [streams EXCEPT ![s].pc = "waiting", ![s].out = <<>>,
                                          ![s].last_heartbeat = now]
            /\ UNCHANGED <<connections, delivered>>
       ELSE /\ streams' = [streams EXCEPT ![s].pc = "waiting", ![s].out = <<>>]
            /\ UNCHANGED <<conns, connections, histVars>>
    /\ UNCHANGED <<jobVars, now, sweep>>

\* The consumer asks for the next element: the loop test of line 282, the
\* heartbeat of lines 284-287, then the wait; or the loop ends and the
\* finally branch disconnects (line 302).
StreamNext(s) ==
    /\ s \in DOMAIN streams
    /\ streams[s].pc \in {"yielded", "keepalive"}
    /\ IF ~conns[streams[s].conn].connected
       THEN /\ disconnect(streams[s].connection_id)
            /\ streams' = [streams EXCEPT ![s].pc = "closed", ![s].out = <<>>]
            /\ UNCHANGED histVars
       ELSE IF now - streams[s].last_heartbeat >= heartbeat_interval
       THEN /\ send_event(EventData("heartbeat", 0, "n/a"), "heartbeat",
                          Some(streams[s].connection_id), None)
            /\ streams' = [streams EXCEPT ![s].pc = "waiting", ![s].out = <<>>,
                                          ![s].last_heartbeat = now]
            /\ UNCHANGED <<connections, delivered>>
       ELSE /\ streams' = [streams EXCEPT ![s].pc = "waiting", ![s].out = <<>>]
            /\ UNCHANGED <<conns, connections, histVars>>
    /\ UNCHANGED <<jobVars, now, sweep>>

\* The consumer stops iterating, or its task is cancelled while the
\* generator waits: the finally branch disconnects (line 302)
StreamClose(s) ==
    /\ s \in DOMAIN streams
    /\ streams[s].pc \in {"waiting", "yielded", "keepalive"}
    /\ disconnect(streams[s].connection_id)
    /\ streams' = [streams EXCEPT ![s].pc = "closed", ![s].out = <<>>]
    /\ UNCHANGED <<jobVars, now, sweep, histVars>>

\* what a caller can pass as the kind, the id and the retry hint of an event
EventKinds  == {"message", ""}
EventIds    == {None, Some(""), Some("e1")}
RetryInputs == {None, Some(0), Some(3000)}

PayloadInputs == {EventData("message", 0, "n/a"), EventData(NotJson, 0, "n/a")}

\* a caller of SSEManager.send_event that broadcasts a payload with a kind
\* and an id
SendEventWith(data, event, event_id) ==
    /\ sent.count < MaxEvents
    /\ send_event(data, event, None, event_id)
    /\ UNCHANGED <<jobVars, now, connections, streams, sweep, delivered>>

\* a caller of SSEConnection.send_event (lines 43-50) with an event of its
\* own making, which may carry a retry hint
ConnectionSendEvent(o, retry) ==
    /\ sent.count < MaxEvents
    /\ o \in DOMAIN conns
    /\ LET e == [SSEEvent("message", EventData("message", 0, "n/a"), None)
                    EXCEPT !.retry = retry]
       IN  /\ conns' = [conns EXCEPT ![o] = ConnSendEvent(@, e)]
           /\ sent' = Sent(e, Some(conns[o].connection_id))
           /\ enqueued' = [enqueued EXCEPT ![o] =
                              IF conns[o].connected THEN Append(@, e.seq) ELSE @]
    /\ UNCHANGED <<jobVars, now, connections, streams, sweep, delivered>>

\* _cleanup_connections, lines 95-115: one pass of the loop when its sleep ends
Expired ==
    {cid \in DOMAIN connections :
        \/ now - conns[connections[cid]].last_heartbeat > connection_timeout
        \/ ~conns[connections[cid]].connected}

SweepRun ==
    /\ sweep.task = "running"
    /\ now >= sweep.wake
    /\ conns' = [o \in DOMAIN conns |->
                    IF \E cid \in Expired : connections[cid] = o
                    THEN [conns[o] EXCEPT !.connected = FALSE] ELSE conns[o]]
    /\ connections' = [cid \in DOMAIN connections \ Expired |-> connections[cid]]
    /\ sweep' = [sweep EXCEPT !.wake = now + SweepInterval]
    /\ UNCHANGED <<jobVars, now, streams, histVars>>

\* shutdown, lines 327-344: every registered connection is disconnected and
\* the sweep task is cancelled where it sleeps (line 111), so it makes no
\* further pass; _started is left as it is
Shutdown ==
    /\ conns' = [o \in DOMAIN conns |->
                    IF \E cid \in DOMAIN connections : connections[cid] = o
                    THEN [conns[o] EXCEPT !.connected = FALSE] ELSE conns[o]]
    /\ connections' = <<>>
    /\ sweep' = IF sweep.task = "running"
                THEN [sweep EXCEPT !.task = "cancelled"] ELSE sweep
    /\ UNCHANGED <<jobVars, now, streams, histVars>>

\* the clock advances, up to the bound of the specification at hand
Tick(limit) ==
    /\ now < limit
    /\ now' = now + 1
    /\ UNCHANGED <<jobVars, connVars, histVars>>

\* The clock advances by StreamWait while every stream is consumed without
\* delay: no stream holds an element its consumer has not asked beyond, no
\* stream waits on a queue that has an event, and the wait_for_event of
\* every waiting stream times out when the time has passed (lines 290-297).
WaitElapses(limit) ==
    /\ now + StreamWait <= limit
    /\ \A s \in DOMAIN streams :
          /\ streams[s].pc \in {"waiting", "closed"}
          /\ streams[s].pc = "waiting" => conns[streams[s].conn].queue = <<>>
    /\ now' = now + StreamWait
    /\ streams' = [s \in DOMAIN streams |->
                      IF streams[s].pc = "waiting"
                      THEN [streams[s] EXCEPT !.pc = "keepalive", !.out = KeepAlive]
                      ELSE streams[s]]
    /\ UNCHANGED <<jobVars, conns, connections, sweep, histVars>>

----------------------------------------------------------------------------
(* Entry points of main.py *)

\* a tool call may also leave a format out (arguments.get gives None)
ToolFormatInputs == FormatInputs \cup {<<"", "html">>, <<"md", "">>}

\* handle_convert_document, lines 147-184, as called by handle_call_tool
\* (lines 122-144), which answers a raised ValueError with an error result:
\* a rejected call changes nothing
\* a tool call that announces the completion of the job it has just created
HandleConvertDocument_AnnouncesCompletion(source_format, target_format, content, file_path) ==
    IF source_format = "" \/ target_format = ""
    THEN UNCHANGED vars
    ELSE IF ~Truthy(content) /\ ~Truthy(file_path)
    THEN UNCHANGED vars
    ELSE /\ nextJob < MaxJobs
         /\ convert_async(nextJob + 1, source_format, target_format, content, file_path)
         /\ send_event(EventData("conversion_complete", nextJob + 1, "n/a"),
                       "message", None, None)
         /\ UNCHANGED <<files, waiters, now, snapshots, connections, streams, sweep, delivered>>

HandleConvertDocument(source_format, target_format, content, file_path) ==
    IF source_format = "" \/ target_format = ""
    THEN UNCHANGED vars
    ELSE IF ~Truthy(content) /\ ~Truthy(file_path)
    THEN UNCHANGED vars
    ELSE /\ nextJob < MaxJobs
         /\ convert_async(nextJob + 1, source_format, target_format, content, file_path)
         /\ send_event(EventData("conversion_started", nextJob + 1, "n/a"),
                       "message", None, None)
         /\ UNCHANGED <<files, waiters, now, snapshots, connections, streams, sweep, delivered>>

\* wait_for_completion, lines 316-331: one pass of the loop; None = sleep again
DefaultTimeout == 10
\* timeouts a direct caller passes
TimeoutInputs == {0, DefaultTimeout}

\* a wait that takes an unknown id for a job that is not finished yet
wait_for_completion_NoLookup(job_id, start, timeout) ==
    IF job_id \in DOMAIN jobs /\ jobs[job_id].status = "completed"
    THEN Some(jobs[job_id].result[1])
    ELSE IF job_id \in DOMAIN jobs /\ jobs[job_id].status = "failed"
    THEN Some([success |-> FALSE, error |-> jobs[job_id].error])
    ELSE IF now - start > timeout
    THEN Some([success |-> FALSE, error |-> Some(Msg("Conversion timeout", ""))])
    ELSE None

wait_for_completion(job_id, start, timeout) ==
    IF job_id \notin DOMAIN jobs
    THEN Some([success |-> FALSE, error |-> Some(Msg("Job not found", ""))])
    ELSE IF jobs[job_id].status = "completed"
    THEN Some(jobs[job_id].result[1])
    ELSE IF jobs[job_id].status = "failed"
    THEN Some([success |-> FALSE, error |-> jobs[job_id].error])
    ELSE IF now - start > timeout
    THEN Some([success |-> FALSE, error |-> Some(Msg("Conversion timeout", ""))])
    ELSE None

\* the return statement a pass of wait_for_completion takes (lines 318, 323,
\* 325, 329), or "sleep" (line 331)
WaitBranch(job_id, start, timeout) ==
    IF job_id \notin DOMAIN jobs THEN "not_found"
    ELSE IF jobs[job_id].status = "completed" THEN "completed"
    ELSE IF jobs[job_id].status = "failed" THEN "failed"
    ELSE IF now - start > timeout THEN "timeout"
    ELSE "sleep"

\* a wait_for_completion call: its arguments, its position, whether it is
\* the call of convert_document_api, whether it has slept, and what it returned
Waiter(job_id, timeout, api) ==
    [job_id |-> job_id, start |-> now, timeout |-> timeout, pc |-> "sleeping",
     api |-> api, slept |-> FALSE, branch |-> "sleep", result |-> None,
     response |-> None]

\* dict.get(key) of a result dict
Get(d, key) == IF key \in DOMAIN d THEN d[key] ELSE None

ConversionResponse(result) ==
    [success |-> result.success, content |-> Get(result, "content"),
     file_path |-> Get(result, "file_path"), error |-> Get(result, "error")]

\* convert_document_api, lines 221-249: from the request (after the upload,
\* if any, was stored under /tmp) to the first sleep of wait_for_completion
ConvertDocumentApi(source_format, target_format, content, hasFile) ==
    /\ nextJob < MaxJobs
    /\ Len(waiters) < MaxWaiters
    /\ IF hasFile
       THEN convert_async(nextJob + 1, source_format, target_format,
                          None, Some("/tmp/upload"))
       ELSE convert_async(nextJob + 1, source_format, target_format, content, None)
    /\ waiters' = Append(waiters, Waiter(nextJob + 1, DefaultTimeout, TRUE))
    /\ UNCHANGED <<files, now, snapshots, connVars, histVars>>

\* the waiter after a pass of the loop that returned r
WaiterReturned(w, r, slept) ==
    [w EXCEPT !.pc = "returned", !.slept = slept, !.result = r,
              !.branch = WaitBranch(w.job_id, w.start, w.timeout),
              !.response = IF w.api THEN Some(ConversionResponse(r[1])) ELSE None]

\* a wait whose timeout cancels the conversion
WaiterPoll_Cancels(w) ==
    /\ w \in DOMAIN waiters
    /\ waiters[w].pc = "sleeping"
    /\ LET r == wait_for_completion(waiters[w].job_id, waiters[w].start,
                                    waiters[w].timeout) IN
       /\ r # None
       /\ waiters' = [waiters EXCEPT ![w] = WaiterReturned(@, r, TRUE)]
       /\ task' = IF WaitBranch(waiters[w].job_id, waiters[w].start,
                                waiters[w].timeout) = "timeout"
                  THEN [task EXCEPT ![waiters[w].job_id].pc = "cancelled"]
                  ELSE task
    /\ UNCHANGED <<jobs, nextJob, files, statusLog, now, snapshots, connVars, histVars>>

\* wait_for_completion wakes from asyncio.sleep(0.5); when it returns,
\* convert_document_api answers with the ConversionResponse (lines 251-256)
WaiterPoll(w) ==
    /\ w \in DOMAIN waiters
    /\ waiters[w].pc = "sleeping"
    /\ LET r == wait_for_completion(waiters[w].job_id, waiters[w].start,
                                    waiters[w].timeout) IN
       /\ r # None
       /\ waiters' = [waiters EXCEPT ![w] = WaiterReturned(@, r, TRUE)]
    /\ UNCHANGED <<jobs, task, nextJob, files, statusLog, now, snapshots, connVars, histVars>>

\* a direct call of wait_for_completion, lines 312-331, up to its first
\* sleep or, when the first pass of the loop returns, to its return
WaitForCompletion(job_id, timeout) ==
    /\ Len(waiters) < MaxWaiters
    /\ LET r == wait_for_completion(job_id, now, timeout)
           w == Waiter(job_id, timeout, FALSE)
       IN  waiters' = Append(waiters, IF r = None THEN w ELSE WaiterReturned(w, r, FALSE))
    /\ UNCHANGED <<jobs, task, nextJob, files, statusLog, now, snapshots, connVars, histVars>>

\* A caller of get_job_status keeps what it returned.  dict.copy() (line
\* 306) is shallow: the copy has its own keys, and its 'result' is the very
\* dict the job record refers to.
GetJobStatus(job_id) ==
    /\ Len(snapshots) < MaxSnapshots
    /\ snapshots' = Append(snapshots, [job_id |-> job_id,
                                       value |-> get_job_status(job_id)])
    /\ UNCHANGED <<jobs, task, nextJob, files, waiters, statusLog, now,
                   connVars, histVars>>

\* the snapshot refers to the result dict of its job
SharesResult(s) == "result" \in DOMAIN s.value /\ s.value.result # None

\* the caller assigns snapshot['status']: a key of the copy
SnapshotSet(k) ==
    /\ k \in DOMAIN snapshots
    /\ "status" \in DOMAIN snapshots[k].value
    /\ snapshots[k].value.status # "edited"
    /\ snapshots' = [snapshots EXCEPT ![k].value.status = "edited"]
    /\ UNCHANGED <<jobs, task, nextJob, files, waiters, statusLog, now,
                   connVars, histVars>>

\* The caller assigns snapshot['result']['success'] = False: a key of the
\* result dict, which the job record (line 306), the other snapshots of the
\* job and what wait_for_completion returned for it (line 323) refer to.
SnapshotSetResult(k) ==
    /\ k \in DOMAIN snapshots
    /\ SharesResult(snapshots[k])
    /\ snapshots[k].value.result[1].success
    /\ LET j == snapshots[k].job_id
           r == Some([snapshots[k].value.result[1] EXCEPT !.success = FALSE])
       IN  /\ snapshots' = [i \in DOMAIN snapshots |->
                               IF snapshots[i].job_id = j /\ SharesResult(snapshots[i])
                               THEN [snapshots[i] EXCEPT !.value.result = r]
                               ELSE snapshots[i]]
           /\ jobs' = IF j \in DOMAIN jobs
                      THEN [jobs EXCEPT ![j].result = r]
                      ELSE jobs
           /\ waiters' = [w \in DOMAIN waiters |->
                             IF waiters[w].job_id = j /\ waiters[w].branch = "completed"
                             THEN [waiters[w] EXCEPT !.result = r]
                             ELSE waiters[w]]
    /\ UNCHANGED <<task, nextJob, files, statusLog, now, connVars, histVars>>

----------------------------------------------------------------------------
(* The program *)

\* the job registry and its callers
JobNext ==
    \/ \E f \in ToolFormatInputs, c \in ContentInputs, p \in PathInputs :
          HandleConvertDocument(f[1], f[2], c, p)
    \/ \E f \in FormatInputs, c \in ContentInputs, u \in BOOLEAN :
          ConvertDocumentApi(f[1], f[2], c, u)
    \/ \E j \in JobIds : TaskStart(j) \/ TaskRead(j) \/ TaskConvert(j)
    \/ \E w \in 1 .. MaxWaiters : WaiterPoll(w)
    \/ \E j \in 0 .. MaxJobs : CleanupJob(j)

\* publishing and streaming
PubSubNext ==
    \/ \E c \in {None} \cup {Some(x) : x \in ExplicitIds} : CreateConnection(c)
    \/ \E c \in CallerIds : Disconnect(c)
    \/ \E c \in {None} \cup {Some(x) : x \in CallerIds} : SendEvent(c) \/ StreamOpen(c)
    \/ \E s \in 1 .. MaxStreams :
          StreamGet(s) \/ StreamTimeout(s) \/ StreamNext(s) \/ StreamClose(s)

\* the connection registry and its callers
ConnNext == PubSubNext \/ SweepRun

Next == JobNext \/ ConnNext \/ Tick(MaxTime)

Spec == Init /\ [][Next]_vars

\* the job registry alone (no subscriber connects, the clock stands still)
JobSpec == Init /\ [][JobNext]_vars

\* publishing and streaming while the idle sweep sleeps
ConnSpec == Init /\ [][PubSubNext \/ Tick(MaxTime)]_vars

\* subscribers that never read, the idle sweep and the manager's shutdown
SweepNext ==
    \/ \E c \in {None} \cup {Some(x) : x \in ExplicitIds} : CreateConnection(c)
    \/ \E c \in CallerIds : Disconnect(c)
    \/ \E c \in {None} \cup {Some(x) : x \in CallerIds} : SendEvent(c)
    \/ SweepRun
    \/ Shutdown
    \/ Tick(SweepTime)

SweepSpec == Init /\ [][SweepNext]_vars

\* a subscriber whose stream is consumed without delay, beside a connection
\* nobody reads, while the idle sweep runs
KeepAliveNext ==
    \/ CreateConnection(None)
    \/ StreamOpen(None)
    \/ SendEvent(None)
    \/ \E s \in 1 .. MaxStreams : StreamGet(s) \/ StreamNext(s)
    \/ SweepRun
    \/ WaitElapses(KeepAliveTime)

KeepAliveSpec == Init /\ [][KeepAliveNext]_vars

\* subscribers whose connection is disconnected, swept or shut down while
\* their stream runs; the consumer never stops iterating
DeadStreamNext ==
    \/ StreamOpen(None)
    \/ SendEvent(None)
    \/ \E c \in CallerIds : Disconnect(c)
    \/ \E s \in 1 .. MaxStreams : StreamGet(s) \/ StreamTimeout(s) \/ StreamNext(s)
    \/ SweepRun
    \/ Shutdown
    \/ Tick(SweepTime)

DeadStreamSpec == Init /\ [][DeadStreamNext]_vars

\* subscribers that read events of every kind, with and without id and retry
WireNext ==
    \/ CreateConnection(None)
    \/ \E d \in PayloadInputs, k \in EventKinds, i \in EventIds : SendEventWith(d, k, i)
    \/ \E o \in 1 .. MaxConns, r \in RetryInputs : ConnectionSendEvent(o, r)
    \/ \E c \in {None} \cup {Some(x) : x \in CallerIds} : StreamOpen(c)
    \/ \E s \in 1 .. MaxStreams :
          StreamGet(s) \/ StreamTimeout(s) \/ StreamNext(s) \/ StreamClose(s)
    \/ Tick(MaxTime)

WireSpec == Init /\ [][WireNext]_vars

\* tool calls that submit the first LiveJobs jobs while subscribers listen
NotifyNext ==
    \/ \E f \in ToolFormatInputs, c \in ContentInputs, p \in PathInputs :
          nextJob < LiveJobs /\ HandleConvertDocument(f[1], f[2], c, p)
    \/ \E j \in JobIds : TaskStart(j) \/ TaskRead(j) \/ TaskConvert(j)
    \/ \E j \in 0 .. MaxJobs : CleanupJob(j)
    \/ CreateConnection(None)
    \/ \E c \in {None} \cup {Some(x) : x \in CallerIds} : StreamOpen(c)
    \/ \E s \in 1 .. MaxStreams :
          StreamGet(s) \/ StreamTimeout(s) \/ StreamNext(s) \/ StreamClose(s)

NotifySpec == Init /\ [][NotifyNext]_vars

\* jobs that fail beside jobs that do not, and connections that die beside
\* connections that do not
IsolationFormats == {<<"md", "html">>, <<"md", "pdf">>}

IsolationNext ==
    \/ \E f \in IsolationFormats :
          HandleConvertDocument(f[1], f[2], Some("# Hi"), None)
    \/ \E j \in JobIds : TaskStart(j) \/ TaskConvert(j)
    \/ \E c \in {None, Some("a")} : CreateConnection(c)
    \/ \E c \in CallerIds : Disconnect(c)

IsolationSpec == Init /\ [][IsolationNext]_vars

\* callers that ask for the status of jobs and change what they were given
SnapshotNext ==
    \/ \E f \in IsolationFormats :
          HandleConvertDocument(f[1], f[2], Some("# Hi"), None)
    \/ \E j \in JobIds : TaskStart(j) \/ TaskConvert(j)
    \/ \E j \in 0 .. MaxJobs : j \in KnownIds /\ CleanupJob(j)
    \/ \E j \in 0 .. MaxJobs : j \in KnownIds /\ GetJobStatus(j)
    \/ \E k \in 1 .. MaxSnapshots : SnapshotSet(k) \/ SnapshotSetResult(k)

SnapshotSpec == Init /\ [][SnapshotNext]_vars

\* callers that wait for the first LiveJobs submissions while time passes
WaitNext ==
    \/ \E f \in ToolFormatInputs, c \in ContentInputs, p \in PathInputs :
          nextJob < LiveJobs /\ HandleConvertDocument(f[1], f[2], c, p)
    \/ \E f \in FormatInputs, c \in ContentInputs, u \in BOOLEAN :
          nextJob < LiveJobs /\ ConvertDocumentApi(f[1], f[2], c, u)
    \/ \E j \in JobIds : TaskStart(j) \/ TaskRead(j) \/ TaskConvert(j)
    \/ \E w \in 1 .. MaxWaiters : WaiterPoll(w)
    \/ \E j \in 0 .. MaxJobs : CleanupJob(j)
    \/ \E j \in 0 .. MaxJobs, t \in TimeoutInputs :
          j \in KnownIds /\ WaitForCompletion(j, t)
    \/ Tick(MaxTime)

WaitSpec == Init /\ [][WaitNext]_vars

\* the same under the event loop's scheduling of the conversion tasks
LiveWaitSpec ==
    /\ WaitSpec
    /\ \A j \in 1 .. LiveJobs :
          WF_vars(TaskStart(j)) /\ WF_vars(TaskRead(j)) /\ WF_vars(TaskConvert(j))

\* The job registry under the event loop's scheduling: a task that is ready
\* to run is run, and the executor and the file system answer.  The first
\* LiveJobs submissions are followed.
LiveJobNext == JobNext /\ nextJob' <= LiveJobs

LiveJobSpec ==
    /\ Init /\ [][LiveJobNext]_vars
    /\ \A j \in 1 .. LiveJobs :
          WF_vars(TaskStart(j)) /\ WF_vars(TaskRead(j)) /\ WF_vars(TaskConvert(j))

----------------------------------------------------------------------------
(* Properties of the job registry *)

ValidFormats(source_format, target_format) ==
    /\ source_format \in DOMAIN supported_formats
    /\ target_format \in DOMAIN supported_formats
    /\ supported_formats[target_format].write

Terminal == {"completed", "failed"}

\* C1: a submission whose source format is unknown, or whose target format
\* is unknown or cannot be written, is rejected synchronously and creates no
\* job: every job in the registry has valid formats.
NoJobForInvalidFormats ==
    \A j \in DOMAIN jobs :
        ValidFormats(jobs[j].source_format, jobs[j].target_format)

\* C2: a submission with neither inline content nor a file path is rejected
\* synchronously and creates no job: every job was submitted with an input.
NoJobWithoutInput ==
    \A j \in DOMAIN jobs :
        Truthy(task[j].content) \/ Truthy(task[j].file_path)

\* C3: submit returns a job that has not started (pending, its task only
\* scheduled), and under the event loop's scheduling every job eventually
\* is completed or failed, unless it is cleaned up.
SubmitReturnsThenTerminates ==
    /\ [][\A j \in JobIds :
             (j \notin DOMAIN jobs /\ j \in DOMAIN jobs')
                 => /\ get_job_status(j)'.status = "pending"
                    /\ task'[j].pc = "scheduled"]_vars
    /\ \A j \in 1 .. LiveJobs :
          (j \in DOMAIN jobs)
              ~> (j \notin DOMAIN jobs \/ get_job_status(j).status \in Terminal)

ValidJobCompleted ==
    \E j \in DOMAIN jobs :
        /\ ValidFormats(jobs[j].source_format, jobs[j].target_format)
        /\ jobs[j].status = "completed"
        /\ task[j].pc = "done"

\* the status assignments a job may have gone through
Lifecycles ==
    {<<"pending">>, <<"pending", "running">>,
     <<"pending", "running", "completed">>, <<"pending", "running", "failed">>}

\* C4: the status of a job only moves pending -> running -> completed or
\* pending -> running -> failed; nothing is assigned after a terminal status.
StatusFollowsLifecycle ==
    \A j \in DOMAIN statusLog :
        /\ statusLog[j] \in Lifecycles
        /\ j \in DOMAIN jobs => jobs[j].status = statusLog[j][Len(statusLog[j])]

BothLifecyclesSeen ==
    \E j, k \in DOMAIN statusLog :
        /\ statusLog[j] = <<"pending", "running", "completed">>
        /\ statusLog[k] = <<"pending", "running", "failed">>

\* C5: between two polls of a job that has not reached a terminal status,
\* progress does not decrease, and it stays within 0..100.
ProgressMonotonic ==
    [][\A j \in DOMAIN jobs \cap DOMAIN jobs' :
          get_job_status(j).status \notin Terminal
              => /\ get_job_status(j).progress \in 0 .. 100
                 /\ get_job_status(j)'.progress \in 0 .. 100
                 /\ get_job_status(j)'.progress >= get_job_status(j).progress]_vars

ProgressObservedMidway ==
    \E j \in DOMAIN jobs :
        /\ jobs[j].status = "running"
        /\ jobs[j].progress = 60
        /\ task[j].pc = "converting"

\* C6: in every state a caller can observe, a job has an error exactly when
\* it is failed, and a result exactly when it is completed; what
\* wait_for_completion returned carries an error or a result, never both.
ErrorIffFailedResultIffCompleted ==
    /\ \A j \in DOMAIN jobs :
          /\ get_job_status(j).error # None <=> get_job_status(j).status = "failed"
          /\ get_job_status(j).result # None <=> get_job_status(j).status = "completed"
    /\ \A w \in DOMAIN waiters :
          waiters[w].response # None
              => LET r == waiters[w].response[1] IN
                 /\ r.error # None <=> ~r.success
                 /\ r.error # None => r.content = None /\ r.file_path = None
                 /\ r.success => r.content # None \/ r.file_path # None

FailedAndCompletedJobs ==
    \E j, k \in DOMAIN jobs :
        /\ jobs[j].status = "failed" /\ jobs[j].error # None
        /\ jobs[k].status = "completed" /\ jobs[k].result # None

\* the type of the event that reports the terminal status of job j
TerminalEvent(j) ==
    IF jobs[j].status = "completed" THEN "conversion_complete" ELSE "conversion_error"

\* C7: every job that has reached a terminal status has had the matching
\* terminal event (conversion_complete or conversion_error) published.
TerminalJobsHadTerminalEvent ==
    \A j \in DOMAIN jobs :
        jobs[j].status \in Terminal
            => \E d \in sent.jobs : d.job_id = j /\ d.type = TerminalEvent(j)

----------------------------------------------------------------------------
(* Properties of publishing and streaming *)

\* the event numbers waiting in a queue
QueueSeqs(q) == [i \in 1 .. Len(q) |-> q[i].seq]

NoDuplicates(q) == \A i, k \in 1 .. Len(q) : q[i] = q[k] => i = k

\* C8: the events a connection's stream has yielded are the events that were
\* enqueued for it, in the order of enqueueing, each at most once; what is
\* not yet yielded still waits in the queue, in order.
DeliveredInEnqueueOrder ==
    \A o \in DOMAIN conns :
        /\ enqueued[o] = delivered[o] \o QueueSeqs(conns[o].queue)
        /\ NoDuplicates(enqueued[o])

SeveralDelivered ==
    \E o \in DOMAIN conns :
        /\ Len(delivered[o]) >= 2
        /\ Len(enqueued[o]) > Len(delivered[o])

\* a step of SSEManager.send_event: an event was constructed and no
\* connection was created
Published == sent'.count # sent.count /\ Len(conns') = Len(conns)

\* C9: a publish without a connection id enqueues the event once on every
\* registered connection; a publish with the id of a registered connection
\* enqueues it once on that connection and on no other.
PublishReachesItsAddressees ==
    [][Published =>
          LET p == sent'.last[1]
              To == IF p.target = None
                    THEN {connections[c] : c \in DOMAIN connections}
                    ELSE {connections[p.target[1]]}
          IN  (p.target = None \/ p.target[1] \in DOMAIN connections)
                  => \A o \in DOMAIN conns :
                         enqueued'[o] = IF o \in To
                                        THEN Append(enqueued[o], p.event.seq)
                                        ELSE enqueued[o]]_vars

\* C10: a publish to an id that is not registered changes no connection, no
\* queue and no job, and a connection that is dead is never enqueued onto.
PublishToUnknownOrDeadIsDropped ==
    [][Published =>
          /\ LET p == sent'.last[1] IN
                 (p.target # None /\ p.target[1] \notin DOMAIN connections)
                     => UNCHANGED <<conns, connections, enqueued, jobs>>
          /\ \A o \in DOMAIN conns :
                 ~conns[o].connected
                     => enqueued'[o] = enqueued[o] /\ conns'[o] = conns[o]]_vars

\* C11: a new connection is alive, registered under its id and holds the
\* connected event carrying that id, and the first event its stream delivers
\* is that event, whatever was published in between.
IsWelcome(e, c) ==
    /\ e.event = "connection"
    /\ e.data.type = "connected"
    /\ e.data.connection_id = c.connection_id

WelcomeIsDeliveredFirst ==
    [][/\ Len(conns') > Len(conns)
           => LET o == Len(conns') IN
              /\ Len(conns') = Len(conns) + 1
              /\ conns'[o].connected
              /\ conns'[o].connection_id \in DOMAIN connections'
              /\ connections'[conns'[o].connection_id] = o
              /\ Len(conns'[o].queue) = 1
              /\ IsWelcome(conns'[o].queue[1], conns'[o])
       /\ \A o \in DOMAIN conns :
              (delivered[o] = <<>> /\ delivered'[o] # <<>>)
                  => /\ IsWelcome(Head(conns[o].queue), conns[o])
                     /\ delivered'[o] = <<Head(conns[o].queue).seq>>]_vars

WelcomeDeliveredAheadOfOthers ==
    \E o \in DOMAIN conns :
        /\ Len(delivered[o]) = 1
        /\ Len(enqueued[o]) >= 2
        /\ Len(conns[o].queue) >= 1

\* C12: disconnect of a registered id marks that connection dead and removes
\* the id from the registry; disconnect of an id that is not registered
\* changes nothing; no other connection and no other registration changes.
DisconnectRemovesOnce ==
    [][\A cid \in CallerIds :
          Disconnect(cid)
              => IF cid \in DOMAIN connections
                 THEN /\ ~conns'[connections[cid]].connected
                      /\ conns'[connections[cid]].queue = conns[connections[cid]].queue
                      /\ DOMAIN connections' = DOMAIN connections \ {cid}
                      /\ \A c \in DOMAIN connections' : connections'[c] = connections[c]
                      /\ \A o \in DOMAIN conns \ {connections[cid]} : conns'[o] = conns[o]
                 ELSE UNCHANGED vars]_vars

DisconnectedBesideAlive ==
    \E o, q \in DOMAIN conns :
        /\ ~conns[o].connected
        /\ conns[o].connection_id \notin DOMAIN connections
        /\ conns[q].connected
        /\ conns[q].connection_id \in DOMAIN connections
        /\ connections[conns[q].connection_id] = q

----------------------------------------------------------------------------
(* Properties of cleanup and of waiting *)

\* C13: cleanup_job of an id that is not in the job map (never issued, or
\* cleaned up before) changes nothing, and cleanup_job of a job leaves every
\* other job as it was.
CleanupIsIdempotent ==
    [][\A j \in KnownIds :
          CleanupJob(j)
              => IF j \in DOMAIN jobs
                 THEN /\ DOMAIN jobs' = DOMAIN jobs \ {j}
                      /\ \A k \in DOMAIN jobs' : jobs'[k] = jobs[k]
                 ELSE UNCHANGED vars]_vars

CleanedBesideKept ==
    \E j, k \in DOMAIN statusLog :
        /\ j \notin DOMAIN jobs
        /\ k \in DOMAIN jobs
        /\ jobs[k].status = "completed"

\* the temporary file the result of job j refers to, if any
ResultFile(j) ==
    IF jobs[j].result # None THEN jobs[j].result[1].file_path ELSE None

\* C14: whatever os.unlink does, cleanup_job of a job removes its record and
\* touches no file but the one its result refers to; when the unlink
\* succeeds that file is gone.
CleanupRemovesRecordAndFile ==
    \A j \in DOMAIN jobs :
        /\ ENABLED CleanupJob(j)
        /\ ~ENABLED (CleanupJob(j) /\ j \in DOMAIN jobs')
        /\ IF ResultFile(j) # None
           THEN /\ ENABLED (CleanupJob(j) /\ ResultFile(j)[1] \notin files')
                /\ ~ENABLED (CleanupJob(j) /\ files' \notin {files, files \ {ResultFile(j)[1]}})
           ELSE ~ENABLED (CleanupJob(j) /\ files' # files)

CleanedThoughUnlinkFailed ==
    \E j \in DOMAIN statusLog :
        /\ j \notin DOMAIN jobs
        /\ statusLog[j][Len(statusLog[j])] = "completed"
        /\ task[j].target_format \in BinaryFormats
        /\ j \in files

\* what wait_for_completion returns for an unknown id, and on a timeout
NotFoundResult == [success |-> FALSE, error |-> Some(Msg("Job not found", ""))]
TimeoutResult == [success |-> FALSE, error |-> Some(Msg("Conversion timeout", ""))]

\* C15: wait_for_completion called with an id that is not in the job map
\* returns the not-found failure in its first pass, without sleeping.
UnknownIdReturnsAtOnce ==
    [][\A j \in KnownIds, t \in TimeoutInputs :
          (WaitForCompletion(j, t) /\ j \notin DOMAIN jobs)
              => LET w == waiters'[Len(waiters')] IN
                 /\ w.pc = "returned"
                 /\ ~w.slept
                 /\ w.result = Some(NotFoundResult)]_vars

NotFoundWithoutSleep ==
    \E w \in DOMAIN waiters :
        /\ waiters[w].branch = "not_found"
        /\ ~waiters[w].slept
        /\ waiters[w].timeout = DefaultTimeout
        /\ now = waiters[w].start

\* C16: what wait_for_completion returns for a failed job is never what it
\* returns on a timeout.
FailureDiffersFromTimeout ==
    \A w \in DOMAIN waiters :
        waiters[w].branch = "failed" => waiters[w].result # Some(TimeoutResult)

\* C17: a pass of wait_for_completion changes no job, no task and no file,
\* and after a wait has timed out the job still becomes completed or failed
\* (or is cleaned up).
TimeoutLeavesJobRunning ==
    /\ [][\A w \in DOMAIN waiters :
             WaiterPoll(w) => UNCHANGED <<jobs, task, files, statusLog>>]_vars
    /\ \A w \in 1 .. MaxWaiters :
          (w \in DOMAIN waiters /\ waiters[w].branch = "timeout")
              ~> /\ w \in DOMAIN waiters
                 /\ \/ waiters[w].job_id \notin DOMAIN jobs
                    \/ get_job_status(waiters[w].job_id).status \in Terminal

TerminalAfterTimeout ==
    \E w \in DOMAIN waiters :
        /\ waiters[w].branch = "timeout"
        /\ waiters[w].result = Some(TimeoutResult)
        /\ waiters[w].job_id \in DOMAIN jobs
        /\ jobs[waiters[w].job_id].status = "completed"

----------------------------------------------------------------------------
(* Properties of stream exit and of the idle sweep *)

\* C18: once the loop of a stream has exited, the connection the stream was
\* reading is dead and is not in the registry.
StreamExitUnsubscribes ==
    \A s \in DOMAIN streams :
        (streams[s].pc = "closed" /\ streams[s].conn # 0)
            => /\ ~conns[streams[s].conn].connected
               /\ \A c \in DOMAIN connections : connections[c] # streams[s].conn


\* C19: a registered connection that is marked dead, or whose last heartbeat
\* is older than connection_timeout, is reclaimed by a later run of the idle
\* sweep: while such a connection is registered, the sweep task is running.
ExpiredIsReclaimed ==
    \A cid \in Expired : sweep.task = "running"

----------------------------------------------------------------------------
(* Properties of failures in the background work *)

\* C20: a failure raised by the conversion during a job's background work is
\* captured in the job: the task handles it and ends, the last status of the
\* job is failed, and the job's error is the message of the failure.
ConversionFailureIsCaptured ==
    \A j \in DOMAIN task :
        task[j].raised # None
            => /\ task[j].pc = "done"
               /\ statusLog[j][Len(statusLog[j])] = "failed"
               /\ j \in DOMAIN jobs
                     => jobs[j].status = "failed" /\ jobs[j].error = task[j].raised


----------------------------------------------------------------------------
(* Properties of results, of the wire format and of observers *)

TextFormats == {"txt", "md", "html"}

\* C21: the result of a completed job carries its content type and holds
\* inline content and no file exactly when the target format is a text
\* format, a file and no inline content exactly when it is pdf or docx; a job
\* between text formats submitted with non-empty content is never failed, and
\* is completed with success true as soon as its task has run.
ResultShapeFollowsTarget ==
    \A j \in DOMAIN jobs :
        /\ jobs[j].status = "completed"
              => /\ jobs[j].result # None
                 /\ LET r == jobs[j].result[1] IN
                    /\ r.success
                    /\ r.content_type = _get_content_type(jobs[j].target_format)
                    /\ (r.content # None /\ r.file_path = None)
                          <=> jobs[j].target_format \in TextFormats
                    /\ (r.file_path # None /\ r.content = None)
                          <=> jobs[j].target_format \in BinaryFormats
        /\ ( /\ jobs[j].source_format \in TextFormats
             /\ jobs[j].target_format \in TextFormats
             /\ Truthy(task[j].content) /\ task[j].file_path = None )
              => /\ jobs[j].status \in {"pending", "completed"}
                 /\ task[j].pc # "scheduled"
                       => jobs[j].status = "completed" /\ jobs[j].result[1].success

TextAndBinaryCompleted ==
    \E j, k \in DOMAIN jobs :
        /\ jobs[j].status = "completed" /\ jobs[j].target_format \in TextFormats
        /\ jobs[j].source_format \in TextFormats /\ Truthy(task[j].content)
        /\ jobs[k].status = "completed" /\ jobs[k].target_format \in BinaryFormats


\* C22: the block a stream yields for an event is, in this order, an id line
\* exactly when the event has an id, an event line with its kind, a retry
\* line exactly when the event has a retry hint, one data line per line of
\* the JSON payload and a terminating blank line; the keep-alive filler is
\* the line ": keep-alive" and a blank line.
WireBlockFollowsEvent ==
    [][\A s \in DOMAIN streams :
          /\ StreamGet(s)
                => LET e == Head(conns[streams[s].conn].queue) IN
                   streams'[s].out =
                       (IF e.id # None THEN <<<<"id: ", e.id[1]>>>> ELSE <<>>)
                       \o <<<<"event: ", e.event>>>>
                       \o (IF e.retry # None
                           THEN <<<<"retry: ">> \o Repr(e.retry[1])>> ELSE <<>>)
                       \o PrefixLines("data: ", SplitLines(JsonDumps(e.data)))
                       \o <<<<>>, <<>>>>
          /\ StreamTimeout(s)
                => streams'[s].out = <<<<": keep-alive">>, <<>>, <<>>>>]_vars


\* C23: the id submit returns is usable before any work has run: submit
\* leaves the job in the registry, and as long as the job's task has not
\* taken its first step, status(jobId) on a job in the registry answers
\* pending, progress 0, no result and no error.
StatusBeforeFirstStep ==
    /\ [][\A j \in JobIds :
             (j \notin DOMAIN task /\ j \in DOMAIN task')
                 => j \in DOMAIN jobs' /\ task'[j].pc = "scheduled"]_vars
    /\ [](\A j \in DOMAIN jobs :
             task[j].pc = "scheduled"
                 => /\ get_job_status(j).status = "pending"
                    /\ get_job_status(j).progress = 0
                    /\ get_job_status(j).result = None
                    /\ get_job_status(j).error = None)

PendingBesideFinished ==
    \E j, k \in DOMAIN jobs :
        /\ task[j].pc = "scheduled" /\ jobs[j].status = "pending"
        /\ task[k].pc = "done" /\ jobs[k].status \in Terminal


TerminalProgress ==
    /\ [](\A j \in DOMAIN jobs :
             /\ jobs[j].status = "completed" => get_job_status(j).progress = 100
             /\ jobs[j].status = "failed"
                   => get_job_status(j).progress \in {10, 30, 60, 90})
    /\ [][\A j \in DOMAIN jobs \cap DOMAIN jobs' :
             (jobs[j].status = "running" /\ jobs'[j].status = "failed")
                 => /\ jobs'[j].progress >= jobs[j].progress
                    /\ task'[j].raised # None
                          => jobs'[j].progress = jobs[j].progress]_vars

CompletedAndFailedProgress ==
    \E j, k \in DOMAIN jobs :
        /\ jobs[j].status = "completed" /\ jobs[j].progress = 100
        /\ jobs[k].status = "failed" /\ jobs[k].progress = 90


\* how far a job has come: the order of the states of its lifecycle
Rank(status, progress) ==
    CASE status = "pending" -> 0
      [] status = "running" -> progress
      [] OTHER              -> 100

\* the least state of a job that an event about it describes
Described(d) ==
    CASE d.type = "conversion_started"  -> 0
      [] d.type = "conversion_progress" -> 10
      [] OTHER                          -> 100

\* C26: whenever an event about job j is enqueued to a connection, the
\* record of job j is in the registry and has reached the state the event
\* describes; and when a stream hands such an event to its subscriber,
\* status(j) does not show an earlier state than the event reports.
EventNeverAheadOfJob ==
    [][/\ \A o \in DOMAIN conns :
             (conns'[o].queue # conns[o].queue /\ conns'[o].queue # <<>>)
                 => LET d == conns'[o].queue[Len(conns'[o].queue)].data IN
                    (Len(conns'[o].queue) > Len(conns[o].queue) /\ d.job_id # 0)
                        => /\ d.job_id \in DOMAIN jobs'
                           /\ Rank(jobs'[d.job_id].status, jobs'[d.job_id].progress)
                                 >= Described(d)
       /\ \A s \in DOMAIN streams :
             StreamGet(s)
                 => LET d == Head(conns[streams[s].conn].queue).data IN
                    (d.job_id # 0 /\ d.job_id \in DOMAIN jobs)
                        => Rank(get_job_status(d.job_id).status,
                                get_job_status(d.job_id).progress) >= Described(d)]_vars

JobEventDelivered ==
    \E s \in DOMAIN streams, d \in sent.jobs :
        /\ streams[s].pc = "yielded"
        /\ streams[s].out = _format_sse_event(SSEEvent("message", d, None))
        /\ d.job_id \in DOMAIN jobs
        /\ jobs[d.job_id].status = "running"


\* C27: a stream on a registered connection does not end while the
\* connection is alive and the consumer keeps iterating: a stream that waits
\* can yield (an event, or the keep-alive filler when the queue is empty),
\* and it ends only when its connection is dead or its consumer stops.
StreamEndsOnlyWhenDead ==
    /\ [](\A s \in DOMAIN streams :
             streams[s].pc = "waiting" => ENABLED (StreamGet(s) \/ StreamTimeout(s)))
    /\ [][\A s \in DOMAIN streams :
             (streams[s].pc # "closed" /\ streams'[s].pc = "closed")
                 => ~conns[streams[s].conn].connected \/ StreamClose(s)]_vars


\* C28: a stream synthesizes a heartbeat only when heartbeat_interval has
\* passed without any event having been delivered to its connection:
\* delivering an event restarts the interval.
HeartbeatOnlyAfterSilence ==
    [][\A s \in DOMAIN streams :
          (StreamNext(s) /\ sent'.count > sent.count)
              => now - conns[streams[s].conn].last_heartbeat >= heartbeat_interval]_vars


\* C29: the last_heartbeat of a connection changes exactly when a stream
\* dequeues an event and delivers it to the subscriber, and is then the
\* time of the delivery; publishing, the keep-alive filler and operations on
\* other connections leave it unchanged, and it never decreases.
HeartbeatTimeFollowsDelivery ==
    [][\A o \in DOMAIN conns :
          /\ conns'[o].last_heartbeat >= conns[o].last_heartbeat
          /\ conns'[o].last_heartbeat # conns[o].last_heartbeat
                => delivered'[o] # delivered[o]
          /\ delivered'[o] # delivered[o] => conns'[o].last_heartbeat = now]_vars


----------------------------------------------------------------------------
(* Properties of isolation *)

\* C30: a step in which a job becomes failed changes no other job and no
\* connection; a step in which a connection becomes dead changes no other
\* connection and no job; and with a failed job and a dead connection around,
\* submit still creates a job, status still answers with the record,
\* subscribe still registers a connection and publish still reaches the
\* registered connections.
FailuresAreIsolated ==
    /\ [][/\ \A j \in DOMAIN jobs \cap DOMAIN jobs' :
                (jobs[j].status # "failed" /\ jobs'[j].status = "failed")
                    => /\ \A k \in DOMAIN jobs \ {j} :
                             k \in DOMAIN jobs' /\ jobs'[k] = jobs[k]
                       /\ conns' = conns /\ connections' = connections
          /\ \A o \in DOMAIN conns :
                (conns[o].connected /\ ~conns'[o].connected)
                    => /\ \A q \in DOMAIN conns \ {o} : conns'[q] = conns[q]
                       /\ jobs' = jobs]_vars
    /\ []((\/ \E j \in DOMAIN jobs : jobs[j].status = "failed"
            \/ \E o \in DOMAIN conns : ~conns[o].connected)
           => /\ \A j \in DOMAIN jobs :
                    /\ get_job_status(j).status = jobs[j].status
                    /\ get_job_status(j).progress = jobs[j].progress
              /\ nextJob < MaxJobs
                    => ENABLED ( /\ HandleConvertDocument("md", "html", Some("# Hi"), None)
                                 /\ nextJob + 1 \in DOMAIN jobs'
                                 /\ \A c \in DOMAIN connections :
                                       Len(conns'[connections[c]].queue)
                                           = Len(conns[connections[c]].queue) + 1 )
              /\ Len(conns) < MaxConns
                    => ENABLED ( /\ CreateConnection(None)
                                 /\ Uuid(Len(conns) + 1) \in DOMAIN connections' ))

FailedAndDeadBesideHealthy ==
    /\ \E j, k \in DOMAIN jobs :
          jobs[j].status = "failed" /\ jobs[k].status = "completed" /\ j < k
    /\ \E o, q \in DOMAIN conns :
          /\ ~conns[o].connected /\ conns[q].connected /\ o < q
          /\ \E c \in DOMAIN connections : connections[c] = q
          /\ \E e \in 1 .. Len(conns[q].queue) : conns[q].queue[e].data.job_id # 0


----------------------------------------------------------------------------
(* Properties of shutdown, of snapshots and of cleanup in flight *)

\* C31: when shutdown has completed the registry holds no connection, every
\* connection that was registered is dead, and the sweep task does not run.
ShutdownDrainsAll ==
    [][Shutdown
          => /\ connections' = <<>>
             /\ \A o \in DOMAIN conns : ~conns'[o].connected
             /\ sweep'.task # "running"]_vars

\* C32: get_job_status changes no job record and answers an unknown id with
\* not-found; a snapshot it returned is independent of the job: a later
\* change of the job does not change the snapshot, and a change the caller
\* makes to the snapshot, its result included, does not change the job.
SnapshotIsIndependent ==
    [][/\ \A j \in 0 .. MaxJobs :
             GetJobStatus(j)
                 => /\ jobs' = jobs
                    /\ j \notin DOMAIN jobs
                          => snapshots'[Len(snapshots')].value
                                 = [error |-> Some(Msg("Job not found", ""))]
       /\ jobs' # jobs
             => \/ snapshots' = snapshots
                \/ \E k \in DOMAIN snapshots : SnapshotSetResult(k)
       /\ \A k \in DOMAIN snapshots :
             (SnapshotSet(k) \/ SnapshotSetResult(k)) => jobs' = jobs]_vars

\* the ids of the jobs that were submitted and have been cleaned up since
CleanedUp == (1 .. nextJob) \ DOMAIN jobs

\* C33: after cleanup_job(j) the registry never holds a record for j again,
\* whatever the conversion task of j does afterwards: get_job_status(j)
\* answers not-found from then on.
CleanedUpStaysGone ==
    [][/\ \A j \in 0 .. MaxJobs : CleanupJob(j) => j \notin DOMAIN jobs'
       /\ \A j \in CleanedUp :
             /\ j \notin DOMAIN jobs'
             /\ get_job_status(j)' = [error |-> Some(Msg("Job not found", ""))]]_vars

\* a job was cleaned up while its task was in flight, and the task has ended
CleanedUpInFlight ==
    \E j \in CleanedUp : task[j].pc = "crashed"

\* C34: the conversion task of a job never ends with an unhandled exception,
\* not even when cleanup_job removed the record while the task was in flight.
TaskNeverCrashes ==
    \A j \in DOMAIN task : task[j].pc # "crashed"

\* the conversion task of job j has ended
TaskEnded(j) == task[j].pc \in {"done", "crashed"}

\* C35: when a job with a binary target format has been cleaned up and its
\* task has ended, no temporary file created for the job remains, whether
\* the cleanup ran after the task or while it was in flight.  (The file of
\* a completed job is set aside: its unlink can fail with OSError.)
CleanedUpLeavesNoFile ==
    \A j \in CleanedUp :
        (task[j].target_format \in BinaryFormats /\ TaskEnded(j))
            => \/ j \notin files
               \/ statusLog[j][Len(statusLog[j])] = "completed"

\* the connection object o is the one the registry holds under its id
Registered(o) ==
    /\ conns[o].connection_id \in DOMAIN connections
    /\ connections[conns[o].connection_id] = o

\* C36: every connection object that is not the one registered under its id
\* is dead; creating a connection with an id that is already registered
\* leaves no connection alive and unregistered.
UnregisteredIsDead ==
    \A o \in DOMAIN conns : ~Registered(o) => ~conns[o].connected

\* a step in which the loop of stream s exits and its finally branch runs
StreamExits(s) ==
    /\ s \in DOMAIN streams
    /\ streams[s].pc # "closed"
    /\ streams'[s].pc = "closed"

\* C37: the disconnect at the exit of a stream removes only the connection
\* the stream was reading: another connection, registered later under the
\* same id, stays registered and alive.
StreamExitSparesOthers ==
    [][\A s \in DOMAIN streams :
          StreamExits(s)
              => \A o \in DOMAIN conns \ {streams[s].conn} :
                    /\ conns'[o].connected = conns[o].connected
                    /\ Registered(o) => Registered(o)']_vars

\* the connection stream s reads, while the stream runs
Consumed == {streams[s].conn : s \in {x \in DOMAIN streams : streams[x].pc # "closed"}}

\* C38: with heartbeat_interval + StreamWait < connection_timeout, the idle
\* sweep never removes a connection whose stream is consumed without delay,
\* whether events are published or not: the heartbeat time of such a
\* connection is never older than heartbeat_interval + StreamWait.
ConsumedIsNeverSwept ==
    /\ [](\A o \in Consumed :
             /\ heartbeat_interval + StreamWait < connection_timeout
             /\ now - conns[o].last_heartbeat <= heartbeat_interval + StreamWait
             /\ Registered(o) /\ conns[o].connected)
    /\ [][SweepRun => \A o \in Consumed : Registered(o)' /\ conns'[o].connected]_vars

\* The first connection is consumed by a stream, the second was created at
\* the same time and is read by nobody.  The sweep has removed the second
\* for its age, which is the age of the first, and no event was published
\* up to then (the second was handed its welcome event only): the first
\* is still registered and alive.
ConsumedOutlivesIdle ==
    /\ 1 \in Consumed /\ Registered(1) /\ conns[1].connected
    /\ 2 \in DOMAIN conns /\ ~Registered(2) /\ ~conns[2].connected
    /\ conns[2].last_heartbeat = 0
    /\ Len(enqueued[2]) = 1

\* C39: the idle sweep is active whenever the registry holds a connection,
\* also a connection that was created after shutdown or after the sweep
\* task has ended.
SweepRunsWhileRegistered ==
    connections # <<>> => sweep.task = "running"

\* the streams that run on a connection that is marked dead
OnDead == {s \in DOMAIN streams :
              streams[s].conn # 0 /\ ~conns[streams[s].conn].connected}

\* C40: once its connection is marked dead (by disconnect, by the idle sweep
\* or by shutdown) a running stream yields at most one further element and
\* then ends: it never waits without bound, from a yield its next step is
\* the exit, and the events left in the queue are never delivered.
DeadStreamEnds ==
    /\ [][\A s \in OnDead :
             streams'[s] # streams[s]
                 => \/ /\ streams[s].pc = "waiting"
                       /\ streams'[s].pc \in {"yielded", "keepalive"}
                       /\ Len(delivered'[streams[s].conn])
                              <= Len(delivered[streams[s].conn]) + 1
                    \/ /\ streams[s].pc \in {"yielded", "keepalive"}
                       /\ streams'[s].pc = "closed"
                       /\ delivered'[streams[s].conn]
                              = delivered[streams[s].conn]]_vars
    /\ [][\A s \in DOMAIN streams :
             (streams[s].pc = "closed" /\ streams[s].conn # 0)
                 => /\ streams'[s] = streams[s]
                    /\ delivered'[streams[s].conn] = delivered[streams[s].conn]]_vars
    /\ [](\A s \in OnDead :
             /\ streams[s].pc = "waiting"
                   => ENABLED (StreamGet(s) \/ StreamTimeout(s))
             /\ streams[s].pc \in {"yielded", "keepalive"} => ENABLED StreamNext(s))

\* a stream has ended on its dead connection, after it delivered an event,
\* and events are left in the queue
EndedWithPending ==
    \E s \in OnDead :
        /\ streams[s].pc = "closed"
        /\ delivered[streams[s].conn] # <<>>
        /\ Len(conns[streams[s].conn].queue) >= 2

====
